---- MODULE Spec2Model ----
(***************************************************************************)
(* tide: the task execution engine.                                        *)
(*                                                                         *)
(* The coordinator (main) loads the configuration, collects the enabled    *)
(* tasks of the enabled, filter-matching groups, partitions them into a    *)
(* sequential and a parallel bin, runs the sequential bin in order, then   *)
(* spawns one worker per parallel task behind a semaphore and joins them.  *)
(* execute_task runs one task: dry run, preconditions, routing to          *)
(* run_command (timeout race) or run_sudo_command (no timeout), and the    *)
(* classification of the outcome by required-ness.                         *)
(***************************************************************************)
EXTENDS Integers, Sequences, FiniteSets, TLC

\* Bounds of the model.
MaxTasks == 2       \* tasks in the configuration file
NGroups == 2        \* groups in the configuration file
MaxLimit == 2       \* largest value of --parallel and of parallel_limit
MaxResults == 3     \* results given to display_results on its own
MaxDuration == 1    \* largest duration of a result given to display_results
MaxLines == 1       \* most lines of a task's output written to the log

TaskIds == 1..MaxTasks
GroupNames == 1..NGroups
Limits == 0..MaxLimit

\* The configuration's layout: tasks are numbered in configuration order; the
\* first `split` of them are the first group's, the rest the second group's,
\* and any further group is empty.
GroupOf(split, t) == IF t <= split THEN 1 ELSE 2

Success == "Success"
Failed == "Failed"
Skipped == "Skipped"
TaskStatus == {Success, Failed, Skipped}

NoResult == [status |-> "none", output |-> "none"]

VARIABLES
    pc,                 \* the coordinator's position in main
    dry_run,            \* args.dry_run, held by the executor
    skip_optional_on_error, \* config.settings.skip_optional_on_error
    eligible,           \* history: ids of the tasks the configuration schedules
    all_tasks,          \* main: all_tasks
    sequential_tasks,   \* main: sequential_tasks
    parallel_tasks,     \* main: parallel_tasks
    seq_pos,            \* the sequential loop's iterator (next index)
    results,            \* main: results
    semaphore,          \* the gate: its permits; history: the smaller limit given
    run,                \* per task: where its execute_task call stands
    returned,           \* per task: the TaskResult execute_task returned
    exceeded,           \* history: tasks whose process outlived timeoutSeconds
    summary,            \* display_results: the counts it printed
    logger,             \* executor.logger, and the lines of the log file
    notifier,           \* settings.desktop_notifications, executor.notifier
    history             \* history: what an observer of the run has noted

vars == <<pc, dry_run, skip_optional_on_error, eligible, all_tasks,
          sequential_tasks, parallel_tasks, seq_pos, results, semaphore, run,
          returned, exceeded, summary, logger, notifier, history>>

NoSemaphore == [limit |-> 0, permits |-> 0, created |-> FALSE]
NoSummary == [success |-> 0, failed |-> 0, skipped |-> 0, shown |-> FALSE]
\* settings.log_file unset: init_logger gives None (main.rs 273-277). `left`
\* is, for a task whose output block is being written, the lines of it that
\* are still to be written.
NoLogger == [present |-> FALSE, left |-> [t \in TaskIds |-> 0]]
\* settings.desktop_notifications off: NotificationManager::new(false). With
\* the manager go the notifications that reached the desktop (`shown`) and
\* those whose call returned an error (`errors`), by kind.
NoNotifier == [configured |-> FALSE, enabled |-> FALSE, shown |-> {}, errors |-> {}]

----------------------------------------------------------------------------
(* Configuration: config.rs TaskConfig, TaskGroup, Settings; cli.rs Args.   *)
(* Config and Args are immutable once loaded, so a field that main reads at *)
(* one program point only is drawn where it is read: the group filters and  *)
(* the enabled flags in the collection loop, parallel_execution in the      *)
(* partition loop, the two limits where the semaphore is created.           *)

\* A field the engine never reads (a disabled task's required and sudo, a
\* disabled group's parallel) is left at its serde default.
TaskConfig ==
    { tc \in [enabled : BOOLEAN, required : BOOLEAN, sudo : BOOLEAN] :
        ~tc.enabled => (tc.required /\ ~tc.sudo) }

TaskGroupFlags ==
    { gf \in [enabled : BOOLEAN, parallel : BOOLEAN] : ~gf.enabled => ~gf.parallel }

\* --groups: absent, naming the first group, or naming every group.
IncludeFilter ==
    { [some |-> FALSE, names |-> {}], [some |-> TRUE, names |-> {1}],
      [some |-> TRUE, names |-> GroupNames] }
\* --skip-groups: absent, or naming the last group.
ExcludeFilter == { [some |-> FALSE, names |-> {}], [some |-> TRUE, names |-> {NGroups}] }

\* Where the second group starts.
Layouts == 1..MaxTasks

RECURSIVE TasksOfGroup(_, _, _, _)
TasksOfGroup(tasks, split, g, t) ==
    IF t > MaxTasks THEN << >>
    ELSE IF GroupOf(split, t) = g
         THEN << [id |-> t, enabled |-> tasks[t].enabled,
                  required |-> tasks[t].required, sudo |-> tasks[t].sudo] >>
              \o TasksOfGroup(tasks, split, g, t + 1)
    ELSE TasksOfGroup(tasks, split, g, t + 1)

\* config.groups: the ordered groups, each with its ordered tasks.
ConfigGroups(flags, tasks, split) ==
    [ g \in GroupNames |->
        [name |-> g, enabled |-> flags[g].enabled, parallel |-> flags[g].parallel,
         tasks |-> TasksOfGroup(tasks, split, g, 1)] ]

----------------------------------------------------------------------------
(* main.rs 75-102: collecting all_tasks.                                    *)

\* Mutant: the tasks of a group are collected whether enabled or not.
RECURSIVE PushAllTasks(_, _, _)
PushAllTasks(group, i, acc) ==
    IF i > Len(group.tasks) THEN acc
    ELSE LET task == group.tasks[i] IN
         PushAllTasks(group, i + 1,
            Append(acc, [id |-> task.id, required |-> task.required,
                         sudo |-> task.sudo, is_parallel |-> group.parallel]))

RECURSIVE PushEnabledTasks(_, _, _)
PushEnabledTasks(group, i, acc) ==
    IF i > Len(group.tasks) THEN acc
    ELSE LET task == group.tasks[i] IN
         PushEnabledTasks(group, i + 1,
            IF task.enabled
            THEN Append(acc, [id |-> task.id, required |-> task.required,
                              sudo |-> task.sudo, is_parallel |-> group.parallel])
            ELSE acc)

RECURSIVE CollectTasks(_, _, _, _)
CollectTasks(groups, a, g, acc) ==
    IF g > Len(groups) THEN acc
    ELSE LET group == groups[g] IN
         IF ~group.enabled THEN CollectTasks(groups, a, g + 1, acc)
         ELSE IF a.groups.some /\ group.name \notin a.groups.names
              THEN CollectTasks(groups, a, g + 1, acc)
         ELSE IF a.skip_groups.some /\ group.name \in a.skip_groups.names
              THEN CollectTasks(groups, a, g + 1, acc)
         ELSE CollectTasks(groups, a, g + 1, PushEnabledTasks(group, 1, acc))

\* The tasks the configuration schedules, stated without the loops.
Eligible(flags, tasks, split, a) ==
    { t \in TaskIds :
        /\ tasks[t].enabled
        /\ flags[GroupOf(split, t)].enabled
        /\ (a.groups.some => GroupOf(split, t) \in a.groups.names)
        /\ ~(a.skip_groups.some /\ GroupOf(split, t) \in a.skip_groups.names) }

----------------------------------------------------------------------------
(* main.rs 172-181: the partition into bins.                                *)

\* Mutant: a task that needs elevation is never put in the parallel bin.
IsParallelTaskUnelevated(entry, parallel_execution) ==
    (entry.is_parallel \/ parallel_execution) /\ ~entry.sudo

IsParallelTask(entry, parallel_execution) ==
    entry.is_parallel \/ (parallel_execution /\ ~entry.sudo)

BinEntry(entry) == [id |-> entry.id, required |-> entry.required, sudo |-> entry.sudo]

RECURSIVE PartitionTasks(_, _, _, _, _)
PartitionTasks(tasks, parallel_execution, i, seq, par) ==
    IF i > Len(tasks) THEN [sequential |-> seq, parallel |-> par]
    ELSE IF IsParallelTask(tasks[i], parallel_execution)
         THEN PartitionTasks(tasks, parallel_execution, i + 1, seq,
                             Append(par, BinEntry(tasks[i])))
         ELSE PartitionTasks(tasks, parallel_execution, i + 1,
                             Append(seq, BinEntry(tasks[i])), par)

Ids(bin) == { bin[i].id : i \in 1..Len(bin) }
InSequentialBin(t) == t \in Ids(sequential_tasks)
InParallelBin(t) == t \in Ids(parallel_tasks)
Entry(t) ==
    IF InParallelBin(t)
    THEN parallel_tasks[CHOOSE i \in 1..Len(parallel_tasks) : parallel_tasks[i].id = t]
    ELSE sequential_tasks[CHOOSE i \in 1..Len(sequential_tasks) : sequential_tasks[i].id = t]

----------------------------------------------------------------------------
\* What an observer of the run notes. One who watches main notes whether
\* --quiet was given, what became of main's call of ensure_sudo_auth, and how
\* often it was made. One who watches the tasks notes, for every task, the
\* dealings of its run_sudo_command with the elevation mechanism, the secret
\* store and the user, in order. One who watches the log file notes the lines
\* that the tasks' log_task_completion puts there, in the order of the file.
\* One who watches the system's processes notes the tasks whose process
\* run_command left behind at its deadline and which has not yet exited.
\* `watching` says who is there, if anyone.
NoHistory ==
    [watching |-> "nothing", quiet |-> FALSE, preauth |-> "none", tier |-> "none",
     calls |-> 0,
     elevation |-> [t \in TaskIds |-> << >>],
     log |-> << >>,
     abandoned |-> {}]

Note(watched, h) == history' = IF history.watching = watched THEN h ELSE history

\* The state after construction, nothing loaded yet.
Started ==
    /\ pc = "start"
    /\ dry_run = FALSE
    /\ skip_optional_on_error = FALSE
    /\ eligible = {}
    /\ all_tasks = << >>
    /\ sequential_tasks = << >>
    /\ parallel_tasks = << >>
    /\ seq_pos = 1
    /\ results = << >>
    /\ semaphore = NoSemaphore
    /\ run = [t \in TaskIds |-> "idle"]
    /\ returned = [t \in TaskIds |-> NoResult]
    /\ exceeded = {}
    /\ summary = NoSummary

\* A configuration that sets no log file and has desktop notifications off.
NoTelemetry == logger = NoLogger /\ notifier = NoNotifier

Init == Started /\ NoTelemetry /\ history = NoHistory

\* The same program, with an observer of main or of the tasks.
MainObservedInit ==
    Started /\ NoTelemetry /\ history = [NoHistory EXCEPT !.watching = "main"]
TasksObservedInit ==
    Started /\ NoTelemetry /\ history = [NoHistory EXCEPT !.watching = "tasks"]

\* The program under a configuration that sets a log file (main.rs 52-62),
\* with an observer of the file.
LoggedInit ==
    /\ Started
    /\ logger = [NoLogger EXCEPT !.present = TRUE]
    /\ notifier = NoNotifier
    /\ history = [NoHistory EXCEPT !.watching = "log"]

\* The program with an observer of the system's processes.
ProcessesObservedInit ==
    Started /\ NoTelemetry /\ history = [NoHistory EXCEPT !.watching = "processes"]

\* The program under a configuration with desktop_notifications on or off.
NotifiedInit ==
    /\ Started
    /\ logger = NoLogger
    /\ \E desktop_notifications \in BOOLEAN :
        notifier = [NoNotifier EXCEPT !.configured = desktop_notifications]
    /\ history = NoHistory

\* main.rs 30-107: Args::parse, Config::load, the collection loop, and the
\* early return when nothing is to run.
Load ==
    /\ pc = "start"
    /\ \E flags \in [GroupNames -> TaskGroupFlags], tasks \in [TaskIds -> TaskConfig],
          split \in Layouts, gs \in IncludeFilter, sk \in ExcludeFilter,
          dry \in BOOLEAN, skip \in BOOLEAN :
        LET a == [groups |-> gs, skip_groups |-> sk]
            collected == CollectTasks(ConfigGroups(flags, tasks, split), a, 1, << >>)
        IN /\ dry_run' = dry
           /\ skip_optional_on_error' = skip
           /\ eligible' = Eligible(flags, tasks, split, a)
           /\ all_tasks' = collected
           /\ pc' = IF collected = << >> THEN "exit" ELSE "confirm"
    /\ UNCHANGED <<sequential_tasks, parallel_tasks, seq_pos, results, semaphore,
                   run, returned, exceeded, summary, logger, notifier, history>>

----------------------------------------------------------------------------
(* The elevation negotiation: executor.rs ensure_sudo_auth (135-218) and    *)
(* run_sudo_command (506-543). The collaborators' answers are inputs: the   *)
(* probe `sudo -n true`, the secret store, `sudo -S true`, and the user.    *)
(* Each operator gives what the code decides and, in order, its dealings    *)
(* with the collaborators.                                                  *)

\* keychain::get_password followed by authenticate_sudo on what it gave.
StoredSecret == {"not_found", "accepted", "rejected", "error"}
\* What the password prompt gives: a secret, nothing, or an error (Ctrl+C).
PromptEntry == {"entered", "empty", "cancelled"}
\* authenticate_sudo: Ok(true), Ok(false) or Err.
Authentication == {"accepted", "rejected", "error"}
\* The persist-confirmation prompt.
Persist == {"yes", "no", "error"}
\* keychain::save_password.
Saved == {"ok", "error"}

Tier(tier, events) == [tier |-> tier, events |-> events]

\* Mutant: the stored secret is tried before the cached session.
SilentTiersStoredFirst(probe, stored) ==
    IF stored = "accepted" THEN Tier("stored", <<"get", "stored_accepted">>)
    ELSE IF stored = "error" THEN Tier("error", <<"get", "stored_error">>)
    ELSE LET tried == IF stored = "rejected" THEN <<"get", "stored_rejected">>
                      ELSE <<"get">>
         IN IF probe THEN Tier("cached", tried \o <<"session_valid">>)
            ELSE Tier("prompt", tried \o <<"session_invalid">>)

\* Mutant: the user is asked although the stored secret was accepted.
SilentTiersDistrusting(probe, stored) ==
    IF probe THEN Tier("cached", <<"session_valid">>)
    ELSE IF stored = "not_found" THEN Tier("prompt", <<"session_invalid", "get">>)
    ELSE IF stored = "accepted"
         THEN Tier("prompt", <<"session_invalid", "get", "stored_accepted">>)
    ELSE IF stored = "error"
         THEN Tier("error", <<"session_invalid", "get", "stored_error">>)
    ELSE Tier("prompt", <<"session_invalid", "get", "stored_rejected">>)

\* executor.rs 138-169, 507-524: the tiers that need no user. The cached
\* session first; then the stored secret, when there is one. A rejected stored
\* secret and a missing one both lead to the prompt; an error of
\* authenticate_sudo is returned.
SilentTiers(probe, stored) ==
    IF probe THEN Tier("cached", <<"session_valid">>)
    ELSE IF stored = "not_found" THEN Tier("prompt", <<"session_invalid", "get">>)
    ELSE IF stored = "accepted"
         THEN Tier("stored", <<"session_invalid", "get", "stored_accepted">>)
    ELSE IF stored = "error"
         THEN Tier("error", <<"session_invalid", "get", "stored_error">>)
    ELSE Tier("prompt", <<"session_invalid", "get", "stored_rejected">>)

\* Mutant: a secret the elevation mechanism rejected is taken all the same.
PromptTierTrusting(entry, auth, exists, confirm, save) ==
    LET entered == <<"prompt", "entered_" \o auth>> IN
    IF entry # "entered" THEN Tier("no_entry", <<"prompt">>)
    ELSE IF auth = "error" THEN Tier("error", entered)
    ELSE IF exists THEN Tier("session", entered \o <<"exists_yes">>)
    ELSE IF confirm = "error"
         THEN Tier("persist_error", entered \o <<"exists_no", "confirm_error">>)
    ELSE IF confirm = "no"
         THEN Tier("session", entered \o <<"exists_no", "confirm_no">>)
    ELSE IF save = "error"
         THEN Tier("persist_error",
                   entered \o <<"exists_no", "confirm_yes", "put_error">>)
    ELSE Tier("session", entered \o <<"exists_no", "confirm_yes", "put_ok">>)

\* Mutant: the entered secret is saved over an entry the store already has.
PromptTierOverwriting(entry, auth, exists, confirm, save) ==
    LET entered == <<"prompt", "entered_" \o auth>>
        found == IF exists THEN "exists_yes" ELSE "exists_no"
    IN
    IF entry # "entered" THEN Tier("no_entry", <<"prompt">>)
    ELSE IF auth = "error" THEN Tier("error", entered)
    ELSE IF auth = "rejected" THEN Tier("rejected", entered)
    ELSE IF confirm = "error"
         THEN Tier("persist_error", entered \o <<found, "confirm_error">>)
    ELSE IF confirm = "no"
         THEN Tier("session", entered \o <<found, "confirm_no">>)
    ELSE IF save = "error"
         THEN Tier("persist_error", entered \o <<found, "confirm_yes", "put_error">>)
    ELSE Tier("session", entered \o <<found, "confirm_yes", "put_ok">>)

\* executor.rs 179-217, 527-545: the prompt, the validation of what was
\* entered, and the offer to save it when the store has no entry. Every `?`
\* returns the error, those of the persist step included. The dealings are
\* noted with what they gave.
PromptTier(entry, auth, exists, confirm, save) ==
    LET entered == <<"prompt", "entered_" \o auth>> IN
    IF entry # "entered" THEN Tier("no_entry", <<"prompt">>)
    ELSE IF auth = "error" THEN Tier("error", entered)
    ELSE IF auth = "rejected" THEN Tier("rejected", entered)
    ELSE IF exists THEN Tier("session", entered \o <<"exists_yes">>)
    ELSE IF confirm = "error"
         THEN Tier("persist_error", entered \o <<"exists_no", "confirm_error">>)
    ELSE IF confirm = "no"
         THEN Tier("session", entered \o <<"exists_no", "confirm_no">>)
    ELSE IF save = "error"
         THEN Tier("persist_error",
                   entered \o <<"exists_no", "confirm_yes", "put_error">>)
    ELSE Tier("session", entered \o <<"exists_no", "confirm_yes", "put_ok">>)

\* What the silent tiers can give, over all answers of the collaborators.
SilentOutcomes == { SilentTiers(probe, stored) : probe \in BOOLEAN, stored \in StoredSecret }

\* What the prompt tier can give: in ensure_sudo_auth, whose prompt takes an
\* empty entry, and in run_sudo_command, whose prompt does not.
PromptOutcomes(entries) ==
    { PromptTier(entry, auth, exists, confirm, save) :
        entry \in entries, auth \in Authentication, exists \in BOOLEAN,
        confirm \in Persist, save \in Saved }

\* executor.rs 135-217: the dealings of one ensure_sudo_auth, in order: those
\* of the silent tiers and, when they gave no session and no error, the call
\* of notify_sudo_required (177) and those of the prompt tier.
EnsureSudoAuth(silent, prompted) ==
    IF silent.tier # "prompt" THEN silent.events
    ELSE silent.events \o <<"notify_sudo_required">> \o prompted.events

\* Mutant: a dry run does not keep main from pre-authenticating.
PreAuthenticatesInDryRun(dry, quiet, sudo_on_path) == ~quiet /\ sudo_on_path

\* Mutant: --quiet does not keep main from pre-authenticating.
PreAuthenticatesWhenQuiet(dry, quiet, sudo_on_path) == ~dry /\ sudo_on_path

\* main.rs 149-151: whether main calls ensure_sudo_auth at all.
PreAuthenticates(dry, quiet, sudo_on_path) == ~dry /\ ~quiet /\ sudo_on_path

\* main.rs 133: the notifier the executor is made with.
NotificationManager(desktop_notifications, quiet) ==
    [configured |-> desktop_notifications, enabled |-> desktop_notifications /\ ~quiet,
     shown |-> {}, errors |-> {}]

\* Mutant: a notification is attempted whether the manager is enabled or not.
NotifyUnguarded(enabled, shown) == IF shown THEN "shown" ELSE "error"

\* notifications.rs 16-37, 40-62, 90-103, 106-126: the four notify operations
\* of one shape. Disabled, the operation returns Ok at once; enabled, the
\* notification is shown, or `show()?` returns the error.
Notify(enabled, shown) ==
    IF ~enabled THEN "off"
    ELSE IF shown THEN "shown"
    ELSE "error"

\* What a call of one of them can come to, with the manager as it is.
Notified == { Notify(notifier.enabled, shown) : shown \in BOOLEAN }

\* The manager after a call for a notification of `kind` came to `outcome`.
Recorded(n, kind, outcome) ==
    [n EXCEPT !.shown = IF outcome = "shown" THEN @ \cup {kind} ELSE @,
              !.errors = IF outcome = "error" THEN @ \cup {kind} ELSE @]

\* main.rs 109-151: the confirmation prompt, not shown under --force or
\* --quiet, whose refusal ends the program before anything runs; then the
\* executor is made and main decides whether to pre-authenticate.
Confirm ==
    /\ pc = "confirm"
    /\ \E force \in BOOLEAN, quiet \in BOOLEAN, answer \in {"proceed", "cancel"},
          sudo_on_path \in BOOLEAN :
        /\ pc' = IF ~(force \/ quiet \/ answer = "proceed") THEN "exit"
                 ELSE IF PreAuthenticates(dry_run, quiet, sudo_on_path) THEN "preauth"
                 ELSE "partition"
        /\ notifier' = IF ~(force \/ quiet \/ answer = "proceed") THEN notifier
                       ELSE NotificationManager(notifier.configured, quiet)
        /\ Note("main", [history EXCEPT !.quiet = quiet])
    /\ UNCHANGED <<logger, dry_run, skip_optional_on_error, eligible,
                   all_tasks, sequential_tasks, parallel_tasks, seq_pos,
                   results, semaphore, run, returned, exceeded, summary>>

\* executor.rs 135-218: ensure_sudo_auth returns Ok(()) at three places: the
\* cached session (150), the accepted stored secret (159), and the end of
\* the prompt tier (217). Every other way out is an Err.
Authorized(tier) == tier \in {"cached", "stored", "session"}

\* Mutant: a failed pre-authentication ends the program.
AfterPreAuthFatal(tier) ==
    /\ pc' = IF Authorized(tier) THEN "partition" ELSE "exit"
    /\ Note("main", [history EXCEPT
                        !.preauth = IF Authorized(tier) THEN "ok" ELSE "failed",
                        !.tier = tier, !.calls = @ + 1])

\* main.rs 152-169: Ok or Err, main goes on to the partition; an Err is only
\* printed as a warning.
AfterPreAuth(tier) ==
    /\ pc' = "partition"
    /\ Note("main", [history EXCEPT
                        !.preauth = IF Authorized(tier) THEN "ok" ELSE "failed",
                        !.tier = tier, !.calls = @ + 1])

\* main.rs 152 and executor.rs 135-178: ensure_sudo_auth up to its prompt,
\* before which notify_sudo_required is called (177).
PreAuth ==
    /\ pc = "preauth"
    /\ \E silent \in SilentOutcomes :
        IF silent.tier # "prompt"
        THEN AfterPreAuth(silent.tier) /\ UNCHANGED notifier
        ELSE /\ pc' = "preauth_prompt"
             /\ \E required \in Notified :
                    notifier' = Recorded(notifier, "sudo_required", required)
             /\ Note("main", [history EXCEPT !.preauth = "prompting"])
    /\ UNCHANGED <<logger, dry_run, skip_optional_on_error, eligible,
                   all_tasks, sequential_tasks, parallel_tasks, seq_pos,
                   results, semaphore, run, returned, exceeded, summary>>

\* executor.rs 170-217: the user answers ensure_sudo_auth's prompt.
PreAuthAnswer ==
    /\ pc = "preauth_prompt"
    /\ \E prompted \in PromptOutcomes(PromptEntry) :
        AfterPreAuth(prompted.tier)
    /\ UNCHANGED <<logger, notifier, dry_run, skip_optional_on_error, eligible,
                   all_tasks, sequential_tasks, parallel_tasks, seq_pos,
                   results, semaphore, run, returned, exceeded, summary>>

\* main.rs 172-181: all_tasks is consumed into the two bins.
Partition ==
    /\ pc = "partition"
    /\ \E parallel_execution \in BOOLEAN :
        LET bins == PartitionTasks(all_tasks, parallel_execution, 1, << >>, << >>)
        IN /\ sequential_tasks' = bins.sequential
           /\ parallel_tasks' = bins.parallel
    /\ all_tasks' = << >>
    /\ pc' = "sequential"
    /\ UNCHANGED <<logger, notifier, history, dry_run, skip_optional_on_error,
                   eligible, seq_pos, results, semaphore, run, returned,
                   exceeded, summary>>

----------------------------------------------------------------------------
(* The callers of execute_task: the sequential loop (main.rs 183-198) and   *)
(* the worker closure (main.rs 213-219).                                    *)

Min(a, b) == IF a < b THEN a ELSE b

\* Mutant: the gate is sized by the larger of the two limits.
SemaphoreSizeMax(cli, configured) == IF cli >= configured THEN cli ELSE configured

\* main.rs 201-203: the number of permits the semaphore is created with.
SemaphoreSize(cli, configured) == IF cli <= configured THEN cli ELSE configured

TaskResult(t, status, output) == [id |-> t, status |-> status, output |-> output]

\* Mutant: the sequential loop never breaks.
SequentialAfterNoBreak(result) ==
    /\ results' = Append(results, result)
    /\ seq_pos' = seq_pos + 1
    /\ UNCHANGED pc

\* Mutant: a failed required task ends the whole dispatch, parallel bin included.
SequentialAfterAbortAll(result) ==
    IF result.status = Failed /\ skip_optional_on_error
    THEN /\ pc' = "display"
         /\ UNCHANGED <<results, seq_pos>>
    ELSE /\ results' = Append(results, result)
         /\ seq_pos' = seq_pos + 1
         /\ UNCHANGED pc

\* Mutant: the newest result is put at the head of the result list.
SequentialAfterPrepending(result) ==
    IF result.status = Failed /\ skip_optional_on_error
    THEN /\ pc' = "parallel"
         /\ UNCHANGED <<results, seq_pos>>
    ELSE /\ results' = <<result>> \o results
         /\ seq_pos' = seq_pos + 1
         /\ UNCHANGED pc

\* Mutant: the loop breaks at a Failed result whatever the setting is.
SequentialAfterIgnoringSetting(result) ==
    IF result.status = Failed
    THEN /\ pc' = "parallel"
         /\ UNCHANGED <<results, seq_pos>>
    ELSE /\ results' = Append(results, result)
         /\ seq_pos' = seq_pos + 1
         /\ UNCHANGED pc

\* main.rs 189-197: what the sequential loop does with a task's result.
SequentialAfter(result) ==
    IF result.status = Failed /\ skip_optional_on_error
    THEN /\ pc' = "parallel"                       \* break, before the push
         /\ UNCHANGED <<results, seq_pos>>
    ELSE /\ results' = Append(results, result)
         /\ seq_pos' = seq_pos + 1
         /\ UNCHANGED pc

\* Mutant: a worker whose task did not succeed keeps its permit.
WorkerAfterLeak(result) ==
    /\ semaphore' = [semaphore EXCEPT !.permits =
                        IF result.status = Success THEN @ + 1 ELSE @]
    /\ UNCHANGED <<pc, results, seq_pos>>

\* main.rs 213-219: the worker's closure ends, dropping _permit.
WorkerAfter(result) ==
    /\ semaphore' = [semaphore EXCEPT !.permits = @ + 1]
    /\ UNCHANGED <<pc, results, seq_pos>>

\* execute_task returns `result` for task t to its caller.
Return(t, result) ==
    /\ run' = [run EXCEPT ![t] = "done"]
    /\ returned' = [returned EXCEPT ![t] = result]
    /\ IF InParallelBin(t)
       THEN WorkerAfter(result)
       ELSE SequentialAfter(result) /\ UNCHANGED semaphore

\* Mutant: only a successful task's TaskResult carries an output.
OutputOfSuccessOnly(outcome) == IF outcome = "exit0" THEN "stdout" ELSE "none"

\* TaskResult.output, by what it says: the captured stdout, the dry-run note,
\* the name of the missing executable, the missing path, the timeout
\* diagnostic, or the text of any other error.
Output(outcome) ==
    CASE outcome = "exit0" -> "stdout"
      [] outcome = "dry_run" -> "dry_run"
      [] outcome = "command_not_found" -> "check_command"
      [] outcome = "path_not_found" -> "check_path"
      [] outcome = "timed_out" -> "timeout"
      [] OTHER -> "error"

\* Mutant: every failure is Failed, whatever `required` says.
ClassifyIgnoringRequired(required, outcome) ==
    IF outcome = "exit0" THEN Success ELSE Failed

\* executor.rs 375-385: the status of a task from what running it gave.
Classify(required, outcome) ==
    IF outcome = "exit0" THEN Success
    ELSE IF required THEN Failed
    ELSE Skipped

\* Mutant: a missing precondition is classified like a failure of the command.
UnmetFails(t, precondition) ==
    TaskResult(t, Classify(Entry(t).required, precondition), Output(precondition))

\* executor.rs 296-351: the TaskResult of a task whose precondition is not met.
Unmet(t, precondition) == TaskResult(t, Skipped, Output(precondition))

\* logger.rs 33-42: log_line takes the lock, writes one line and lets the
\* lock go; the write may fail, and then the file has no such line.
Written(t, part, ok) ==
    Note("log", IF ok THEN [history EXCEPT !.log = Append(@, [task |-> t, part |-> part])]
                ELSE history)

\* executor.rs 90-129 and the `return TaskResult` after each call of it:
\* without a logger log_task_completion returns at once and the TaskResult
\* goes to the caller; with one, the TaskResult is kept while the completion
\* line and the output block are written.
Complete(t, result) ==
    IF logger.present
    THEN /\ run' = [run EXCEPT ![t] = "log_completion"]
         /\ returned' = [returned EXCEPT ![t] = result]
         /\ UNCHANGED <<pc, results, seq_pos, semaphore>>
    ELSE Return(t, result)

\* What an error's text is to notify_task_failed: at most 100 bytes; longer,
\* with a character ending at byte 100; or longer, with byte 100 inside a
\* character. The timeout diagnostic is long and ASCII; "Command failed: "
\* with the captured stderr can be anything; the other errors are short.
ErrorTexts(outcome) ==
    IF outcome = "command_failed" THEN {"short", "long", "long_split"}
    ELSE IF outcome = "timed_out" THEN {"long"}
    ELSE {"short"}

\* notifications.rs 65-86: notify_task_failed. Disabled, it returns Ok at
\* once. Enabled, it cuts the error to `&error[..100]` when it is longer than
\* 100 bytes, which panics when byte 100 is no character boundary; then the
\* notification is shown, or `show()?` returns the error.
NotifyTaskFailed(enabled, text, shown) ==
    IF ~enabled THEN "off"
    ELSE IF text = "long_split" THEN "panic"
    ELSE IF shown THEN "shown"
    ELSE "error"

\* A panic inside execute_task. In a worker it unwinds the spawned task:
\* _permit is dropped and the JoinHandle will give an Err (main.rs 213-219).
\* In the sequential loop it unwinds main, and the process ends.
Panic(t) ==
    /\ run' = [run EXCEPT ![t] = "panicked"]
    /\ UNCHANGED <<returned, results, seq_pos>>
    /\ IF InParallelBin(t)
       THEN /\ semaphore' = [semaphore EXCEPT !.permits = @ + 1]
            /\ UNCHANGED pc
       ELSE /\ pc' = "panicked"
            /\ UNCHANGED semaphore

\* What notify_task_failed can do with the error of `outcome`.
Notifications(outcome) ==
    { NotifyTaskFailed(notifier.enabled, text, shown) :
        text \in ErrorTexts(outcome), shown \in BOOLEAN }

\* executor.rs 462-470: the manager after run_command's own notifications,
\* which it calls for when the deadline won: notify_interactive_input_detected,
\* then notify_task_timeout.
RunnerNotified(outcome) ==
    IF outcome = "timed_out"
    THEN { Recorded(Recorded(notifier, "interactive_input_detected", detected),
                    "task_timeout", timeout) : detected \in Notified, timeout \in Notified }
    ELSE {notifier}

\* executor.rs 375-417: classify, notify the failure of a required task
\* (whatever notify_task_failed returns is dropped), then complete.
Finish(t, outcome) ==
    LET result == TaskResult(t, Classify(Entry(t).required, outcome), Output(outcome))
    IN \E reported \in RunnerNotified(outcome) :
        IF outcome # "exit0" /\ Entry(t).required
        THEN \E notified \in Notifications(outcome) :
                /\ notifier' = Recorded(reported, "task_failed", notified)
                /\ IF notified = "panic" THEN Panic(t) ELSE Complete(t, result)
        ELSE /\ notifier' = reported
             /\ Complete(t, result)

\* task.command: empty, the words of a command, or a command that begins
\* with the word sudo itself.
Commands == {<< >>, <<"other">>, <<"sudo", "other">>}

\* Mutant: sudo is put before the command of every elevated task.
FinalCommandDoubling(sudo, command) ==
    IF sudo /\ command # << >> THEN <<"sudo">> \o command ELSE command

\* executor.rs 253-256: the final argument vector, `cmd`.
FinalCommand(sudo, command) ==
    IF sudo /\ command # << >> /\ command[1] # "sudo" THEN <<"sudo">> \o command
    ELSE command

\* Mutant: an elevated task is run by run_sudo_command, any other by
\* run_command.
RunnerByFlag(sudo, cmd) ==
    IF sudo /\ cmd # << >> THEN "run_sudo_command" ELSE "run_command"

\* executor.rs 369-373: who runs the final argument vector. (The task's sudo
\* flag is not looked at here.)
Runner(sudo, cmd) ==
    IF cmd # << >> /\ cmd[1] = "sudo" THEN "run_sudo_command" ELSE "run_command"

\* task.check_command and task.check_path: not set, naming something the
\* system has, or naming something it lacks.
Checks == {"unset", "found", "missing"}

\* Mutant: the path is looked for before the executable.
PreconditionsPathFirst(check_command, check_path) ==
    IF check_path = "missing" THEN "path_not_found"
    ELSE IF check_command = "missing" THEN "command_not_found"
    ELSE "pass"

\* executor.rs 295-351: the precondition checks: check_command first, then
\* check_path; the first one that is not met is the one reported.
Preconditions(check_command, check_path) ==
    IF check_command = "missing" THEN "command_not_found"
    ELSE IF check_path = "missing" THEN "path_not_found"
    ELSE "pass"

\* Mutant: a process gets the terminal as its stdin unless it is fed a pipe.
StdinInherited(process) ==
    IF process = "authenticate_sudo" THEN "piped" ELSE "inherit"

\* The stdin of the processes the executor starts. run_command sets
\* Stdio::null() (executor.rs 447); run_actual sets nothing and calls
\* Command::output(), which gives the child no stdin of the parent's (491-495);
\* the probe `sudo -n true` sets nothing and calls status(), which lets the
\* child inherit it (137-142, 507-512); authenticate_sudo's `sudo -S true`
\* gets a pipe (554-560).
Stdin(process) ==
    CASE process = "run_command" -> "null"
      [] process = "run_actual" -> "null"
      [] process = "probe" -> "inherit"
      [] process = "authenticate_sudo" -> "piped"

\* main.rs 183-187: the sequential loop calls execute_task for its next task.
SeqStart ==
    /\ pc = "sequential"
    /\ seq_pos <= Len(sequential_tasks)
    /\ run[sequential_tasks[seq_pos].id] = "idle"
    /\ run' = [run EXCEPT ![sequential_tasks[seq_pos].id] = "entered"]
    /\ UNCHANGED <<logger, notifier, pc, history, dry_run,
                   skip_optional_on_error, eligible, all_tasks,
                   sequential_tasks, parallel_tasks, seq_pos, results,
                   semaphore, returned, exceeded, summary>>

\* main.rs 183: the sequential loop runs out of tasks.
SeqExhausted ==
    /\ pc = "sequential"
    /\ seq_pos > Len(sequential_tasks)
    /\ pc' = "parallel"
    /\ UNCHANGED <<logger, notifier, history, dry_run, skip_optional_on_error,
                   eligible, all_tasks, sequential_tasks, parallel_tasks,
                   seq_pos, results, semaphore, run, returned, exceeded,
                   summary>>

\* executor.rs 245-373: dry run, preconditions, and the routing of the command.
\* The task's command and its preconditions are read here only. (The line that
\* log_line writes at 262 when the task starts is in nobody's notes.)
Begin(t) ==
    /\ run[t] = "entered"
    /\ IF dry_run
       THEN /\ Complete(t, TaskResult(t, Skipped, Output("dry_run")))
            /\ UNCHANGED notifier
       ELSE \E precondition \in { Preconditions(check_command, check_path) :
                                    check_command \in Checks, check_path \in Checks } :
            IF precondition # "pass"
            THEN Complete(t, Unmet(t, precondition)) /\ UNCHANGED notifier
            ELSE \E cmd \in { FinalCommand(Entry(t).sudo, command) :
                                command \in Commands } :
                 IF Runner(Entry(t).sudo, cmd) = "run_sudo_command"
                 THEN /\ run' = [run EXCEPT ![t] = "negotiating"]
                      /\ UNCHANGED <<pc, results, seq_pos, semaphore, returned,
                                     notifier>>
                 ELSE IF cmd = << >>               \* run_command: 427-429
                 THEN Finish(t, "empty_command")
                 ELSE /\ run' = [run EXCEPT ![t] = "running"]
                      /\ UNCHANGED <<pc, results, seq_pos, semaphore, returned,
                                     notifier>>
    /\ UNCHANGED <<logger, history, dry_run, skip_optional_on_error,
                   eligible, all_tasks, sequential_tasks, parallel_tasks,
                   exceeded, summary>>

\* executor.rs 457-485: the process ends (or cannot be started) before the
\* deadline.
CommandExit(t) ==
    /\ run[t] = "running"
    /\ \E outcome \in {"exit0", "command_failed", "exec_error"} : Finish(t, outcome)
    /\ UNCHANGED <<logger, history, dry_run, skip_optional_on_error,
                   eligible, all_tasks, sequential_tasks, parallel_tasks,
                   exceeded, summary>>

\* executor.rs 454-475: the deadline wins the race. The future that timeout
\* drops is the JoinHandle of spawn_blocking: the blocking call of
\* command.output() goes on, and so does the process, which nothing kills.
CommandTimeout(t) ==
    /\ run[t] = "running"
    /\ exceeded' = exceeded \cup {t}
    /\ Finish(t, "timed_out")
    /\ Note("processes", [history EXCEPT !.abandoned = @ \cup {t}])
    /\ UNCHANGED <<logger, dry_run, skip_optional_on_error,
                   eligible, all_tasks, sequential_tasks, parallel_tasks,
                   summary>>

\* The observer's note of task t's negotiation, run_actual included.
NoteElevation(t, events) ==
    Note("tasks", [history EXCEPT !.elevation[t] = @ \o events])

\* executor.rs 506-524: run_sudo_command up to its prompt; run_actual is
\* called when a tier gave a session.
Negotiate(t) ==
    /\ run[t] = "negotiating"
    /\ \E silent \in SilentOutcomes :
        IF silent.tier \in {"cached", "stored"}
        THEN /\ run' = [run EXCEPT ![t] = "sudo_running"]
             /\ NoteElevation(t, silent.events \o <<"run_actual">>)
             /\ UNCHANGED <<pc, results, seq_pos, semaphore, returned, notifier>>
        ELSE IF silent.tier = "error"
        THEN Finish(t, "auth_error") /\ NoteElevation(t, silent.events)
        ELSE /\ run' = [run EXCEPT ![t] = "prompting"]
             /\ NoteElevation(t, silent.events)
             /\ UNCHANGED <<pc, results, seq_pos, semaphore, returned, notifier>>
    /\ UNCHANGED <<logger, dry_run, skip_optional_on_error, eligible,
                   all_tasks, sequential_tasks, parallel_tasks, exceeded,
                   summary>>

\* executor.rs 526-545: the user answers run_sudo_command's prompt (which takes
\* no empty entry); run_actual is called when a session results.
Answer(t) ==
    /\ run[t] = "prompting"
    /\ \E prompted \in PromptOutcomes(PromptEntry \ {"empty"}) :
        IF prompted.tier = "session"
        THEN /\ run' = [run EXCEPT ![t] = "sudo_running"]
             /\ NoteElevation(t, prompted.events \o <<"run_actual">>)
             /\ UNCHANGED <<pc, results, seq_pos, semaphore, returned, notifier>>
        ELSE /\ Finish(t, IF prompted.tier = "rejected" THEN "auth_failed"
                          ELSE "auth_error")
             /\ NoteElevation(t, prompted.events)
    /\ UNCHANGED <<logger, dry_run, skip_optional_on_error, eligible,
                   all_tasks, sequential_tasks, parallel_tasks, exceeded,
                   summary>>

\* executor.rs 491-504: run_actual waits for the process with no deadline: the
\* task's timeoutSeconds pass while the process is still running, and nothing
\* happens.
SudoDeadline(t) ==
    /\ run[t] = "sudo_running"
    /\ t \notin exceeded
    /\ exceeded' = exceeded \cup {t}
    /\ UNCHANGED <<logger, notifier, pc, history, dry_run,
                   skip_optional_on_error, eligible, all_tasks,
                   sequential_tasks, parallel_tasks, seq_pos, results,
                   semaphore, run, returned, summary>>

\* executor.rs 491-504: run_actual's process ends (or cannot be started).
SudoExit(t) ==
    /\ run[t] = "sudo_running"
    /\ \E outcome \in {"exit0", "command_failed", "exec_error"} :
        /\ outcome = "exec_error" => t \notin exceeded
        /\ Finish(t, outcome)
    /\ UNCHANGED <<logger, history, dry_run, skip_optional_on_error,
                   eligible, all_tasks, sequential_tasks, parallel_tasks,
                   exceeded, summary>>

\* main.rs 200-228 up to the join: the semaphore and one worker per task.
SpawnParallel ==
    /\ pc = "parallel"
    /\ IF parallel_tasks = << >>
       THEN /\ pc' = "display"
            /\ UNCHANGED <<semaphore, run>>
       ELSE /\ \E cli \in Limits, configured \in Limits :
                semaphore' = [limit |-> Min(cli, configured),
                              permits |-> SemaphoreSize(cli, configured),
                              created |-> TRUE]
            /\ run' = [t \in TaskIds |-> IF InParallelBin(t) THEN "waiting" ELSE run[t]]
            /\ pc' = "join"
    /\ UNCHANGED <<logger, notifier, history, dry_run, skip_optional_on_error,
                   eligible, all_tasks, sequential_tasks, parallel_tasks,
                   seq_pos, results, returned, exceeded, summary>>

\* main.rs 214: a worker acquires a permit and calls execute_task.
Acquire(t) ==
    /\ run[t] = "waiting"
    /\ semaphore.permits > 0
    /\ semaphore' = [semaphore EXCEPT !.permits = @ - 1]
    /\ run' = [run EXCEPT ![t] = "entered"]
    /\ UNCHANGED <<logger, notifier, pc, history, dry_run,
                   skip_optional_on_error, eligible, all_tasks,
                   sequential_tasks, parallel_tasks, seq_pos, results,
                   returned, exceeded, summary>>

\* Mutant: the workers' results are taken last handle first.
RECURSIVE JoinedResultsBackwards(_)
JoinedResultsBackwards(i) ==
    IF i > Len(parallel_tasks) THEN << >>
    ELSE IF run[parallel_tasks[i].id] = "panicked" THEN JoinedResultsBackwards(i + 1)
    ELSE JoinedResultsBackwards(i + 1) \o << returned[parallel_tasks[i].id] >>

\* main.rs 226-228: the Ok results of the handles, in handle order; flatten
\* leaves out the Err of a worker that panicked.
RECURSIVE JoinedResults(_)
JoinedResults(i) ==
    IF i > Len(parallel_tasks) THEN << >>
    ELSE IF run[parallel_tasks[i].id] = "panicked" THEN JoinedResults(i + 1)
    ELSE << returned[parallel_tasks[i].id] >> \o JoinedResults(i + 1)

\* main.rs 224-228: join_all, then the workers' results in handle order.
Join ==
    /\ pc = "join"
    /\ \A t \in Ids(parallel_tasks) : run[t] \in {"done", "panicked"}
    /\ results' = results \o JoinedResults(1)
    /\ pc' = "display"
    /\ UNCHANGED <<logger, notifier, history, dry_run, skip_optional_on_error,
                   eligible, all_tasks, sequential_tasks, parallel_tasks,
                   seq_pos, semaphore, run, returned, exceeded, summary>>

CountStatus(rs, status) == Cardinality({ i \in 1..Len(rs) : rs[i].status = status })

\* main.rs 243: whether main calls notify_all_tasks_complete.
AllComplete(rs) == CountStatus(rs, Failed) = 0 /\ CountStatus(rs, Success) > 0

\* main.rs 230-247, 394-441: display_results, then the notification that
\* all tasks are complete, whose result is dropped.
Display ==
    /\ pc = "display"
    /\ summary' = [success |-> CountStatus(results, Success),
                   failed |-> CountStatus(results, Failed),
                   skipped |-> CountStatus(results, Skipped), shown |-> TRUE]
    /\ IF AllComplete(results)
       THEN \E complete \in Notified :
                notifier' = Recorded(notifier, "all_tasks_complete", complete)
       ELSE UNCHANGED notifier
    /\ pc' = "done"
    /\ UNCHANGED <<logger, history, dry_run, skip_optional_on_error,
                   eligible, all_tasks, sequential_tasks, parallel_tasks,
                   seq_pos, results, semaphore, run, returned, exceeded>>

\* The external processes ending: the environment's steps.
ProcessExit == \E t \in TaskIds : CommandExit(t) \/ SudoExit(t)

\* The program's own steps, the user's answer and the passing of time.
ProgramNext ==
    \/ Load \/ Confirm \/ PreAuth \/ PreAuthAnswer \/ Partition
    \/ SeqStart \/ SeqExhausted
    \/ SpawnParallel \/ Join \/ Display
    \/ \E t \in TaskIds :
        \/ Acquire(t) \/ Begin(t) \/ CommandTimeout(t)
        \/ Negotiate(t) \/ Answer(t) \/ SudoDeadline(t)

Next == ProgramNext \/ ProcessExit

\* The lines of a task's trimmed output: at least one, but that a captured
\* stdout may be empty.
OutputLines(result) ==
    IF result.output = "stdout" THEN 0..MaxLines ELSE 1..MaxLines

\* executor.rs 107-128, logger.rs 44-51: log_task_completion writes the
\* completion line, whose failure is only reported; then, when the trimmed
\* output is not empty, log_block writes the header and the body, line after
\* line, each by a log_line of its own, and stops at the first write that
\* fails. Then execute_task returns. Each step here is one log_line.
LogWrite(t) ==
    /\ run[t] \in {"log_completion", "log_header", "log_body"}
    /\ \E ok \in BOOLEAN :
        IF run[t] = "log_completion"
        THEN /\ Written(t, "completion", ok)
             /\ \E lines \in OutputLines(returned[t]) :
                IF lines > 0
                THEN /\ run' = [run EXCEPT ![t] = "log_header"]
                     /\ logger' = [logger EXCEPT !.left[t] = lines]
                     /\ UNCHANGED <<pc, results, seq_pos, semaphore, returned>>
                ELSE Return(t, returned[t]) /\ UNCHANGED logger
        ELSE IF run[t] = "log_header"
        THEN /\ Written(t, "header", ok)
             /\ IF ok
                THEN /\ run' = [run EXCEPT ![t] = "log_body"]
                     /\ UNCHANGED <<pc, results, seq_pos, semaphore, returned, logger>>
                ELSE /\ Return(t, returned[t])
                     /\ logger' = [logger EXCEPT !.left[t] = 0]
        ELSE /\ Written(t, "body", ok)
             /\ IF ok /\ logger.left[t] > 1
                THEN /\ logger' = [logger EXCEPT !.left[t] = @ - 1]
                     /\ UNCHANGED <<pc, results, seq_pos, semaphore, run, returned>>
                ELSE /\ Return(t, returned[t])
                     /\ logger' = [logger EXCEPT !.left[t] = 0]
    /\ UNCHANGED <<notifier, dry_run, skip_optional_on_error, eligible,
                   all_tasks, sequential_tasks, parallel_tasks, exceeded,
                   summary>>

\* executor.rs 454: a process that run_command left behind exits, and
\* command.output() returns to nobody.
AbandonedExit(t) ==
    /\ t \in history.abandoned
    /\ history' = [history EXCEPT !.abandoned = @ \ {t}]
    /\ UNCHANGED <<logger, notifier, pc, dry_run, skip_optional_on_error,
                   eligible, all_tasks, sequential_tasks, parallel_tasks,
                   seq_pos, results, semaphore, run, returned, exceeded,
                   summary>>

\* The steps of the program and of the processes it left behind.
ProcessesNext == Next \/ \E t \in TaskIds : AbandonedExit(t)

\* The steps of a program that has a logger.
LoggedNext == Next \/ \E t \in TaskIds : LogWrite(t)

Spec == Init /\ [][Next]_vars

\* Every step that can be taken is eventually taken: the runtime schedules
\* every ready task, timers fire, and every external process ends.
FairSpec == Spec /\ WF_vars(Next)

\* As FairSpec, but an external process need not ever end.
FairProgramSpec == Spec /\ WF_vars(ProgramNext)

\* The program with an observer of main, and with an observer of the tasks.
MainObservedSpec == MainObservedInit /\ [][Next]_vars
TasksObservedSpec == TasksObservedInit /\ [][Next]_vars

\* The program with an observer of the system's processes.
ProcessesObservedSpec == ProcessesObservedInit /\ [][ProcessesNext]_vars

\* The program with a log file and an observer of it, and the program with
\* desktop notifications.
LoggedSpec == LoggedInit /\ [][LoggedNext]_vars
NotifiedSpec == NotifiedInit /\ [][Next]_vars

----------------------------------------------------------------------------
(* display_results on its own (main.rs 394-427), given any list of results *)
(* with their durations.                                                    *)

Durations == 0..MaxDuration

\* main.rs 418: results.iter().max_by_key(|r| r.duration), which gives the
\* last of the elements with the greatest key; here the place of that element
\* in the list, 0 for None.
MaxByDuration(rs) ==
    IF rs = << >> THEN 0
    ELSE CHOOSE i \in 1..Len(rs) :
            \A j \in 1..Len(rs) :
                \/ rs[j].duration < rs[i].duration
                \/ rs[j].duration = rs[i].duration /\ j <= i

\* main.rs 394-427: what display_results prints of a list: the three counts
\* and the task of the longest duration.
DisplayResults(rs) ==
    [success |-> CountStatus(rs, Success), failed |-> CountStatus(rs, Failed),
     skipped |-> CountStatus(rs, Skipped), shown |-> TRUE,
     longest |-> IF rs = << >> THEN 0 ELSE rs[MaxByDuration(rs)].id]

\* No run: a result list is being put together for display_results.
AggregateInit ==
    /\ pc = "results"
    /\ dry_run = FALSE
    /\ skip_optional_on_error = FALSE
    /\ eligible = {}
    /\ all_tasks = << >>
    /\ sequential_tasks = << >>
    /\ parallel_tasks = << >>
    /\ seq_pos = 1
    /\ results = << >>
    /\ semaphore = NoSemaphore
    /\ run = [t \in TaskIds |-> "idle"]
    /\ returned = [t \in TaskIds |-> NoResult]
    /\ exceeded = {}
    /\ summary = NoSummary
    /\ NoTelemetry
    /\ history = NoHistory

\* executor.rs 16-24, main.rs 197: one more TaskResult, of a task of its own,
\* with any status and any duration.
Arrive ==
    /\ pc = "results"
    /\ Len(results) < MaxResults
    /\ \E status \in TaskStatus, duration \in Durations :
        results' = Append(results, [id |-> Len(results) + 1, status |-> status,
                                    duration |-> duration])
    /\ UNCHANGED <<logger, notifier, pc, history, dry_run,
                   skip_optional_on_error, eligible, all_tasks,
                   sequential_tasks, parallel_tasks, seq_pos, semaphore, run,
                   returned, exceeded, summary>>

\* main.rs 230-231: display_results is called with the list.
Summarize ==
    /\ pc = "results"
    /\ summary' = DisplayResults(results)
    /\ pc' = "summarized"
    /\ UNCHANGED <<logger, notifier, history, dry_run, skip_optional_on_error,
                   eligible, all_tasks, sequential_tasks, parallel_tasks,
                   seq_pos, results, semaphore, run, returned, exceeded>>

AggregateNext == Arrive \/ Summarize

AggregateSpec == AggregateInit /\ [][AggregateNext]_vars

----------------------------------------------------------------------------
(* Properties.                                                              *)

Inside(t) ==
    run[t] \in {"entered", "negotiating", "prompting", "running", "sudo_running",
                "log_completion", "log_header", "log_body"}
Holding == { t \in TaskIds : InParallelBin(t) /\ Inside(t) }
ResultsFor(t) == { i \in 1..Len(results) : results[i].id = t }
SeqTask(i) == sequential_tasks[i].id
SeqReturned(n) == [ j \in 1..n |-> returned[SeqTask(j)] ]
FailedAt(i) ==
    /\ run[SeqTask(i)] = "done"
    /\ returned[SeqTask(i)].status = Failed
    /\ skip_optional_on_error
Truncated == \E i \in 1..Len(sequential_tasks) : FailedAt(i)

\* C1: when the run has finished dispatching, the result list holds exactly one
\* TaskResult for each enabled task of each enabled group that passes the
\* group filters, and none for any other task.
C1_ExactlyOneResult ==
    pc = "done" =>
        \A t \in TaskIds :
            Cardinality(ResultsFor(t)) = IF t \in eligible THEN 1 ELSE 0

\* C2: the number of parallel workers that hold a permit and are inside
\* execute_task never exceeds the smaller of the two limits.
C2_GateBound ==
    semaphore.created => Cardinality(Holding) <= semaphore.limit

\* C2 witness: the gate is full (as many workers inside as the smaller limit
\* allows, at least one) while another parallel task waits for a permit.
C2_Witness ==
    /\ semaphore.created
    /\ semaphore.limit >= 1
    /\ Cardinality(Holding) = semaphore.limit
    /\ \E t \in TaskIds : run[t] = "waiting"

\* C3: once a required sequential task has ended Failed with
\* skip_optional_on_error set, the results are those of the sequential tasks
\* before it, in order, followed by its own Failed result, and the summary
\* counts it as failed.
C3_FailedResultReported ==
    \A i \in 1..Len(sequential_tasks) :
        FailedAt(i) =>
            /\ Len(results) >= i
            /\ SubSeq(results, 1, i) = SeqReturned(i)
            /\ summary.shown => summary.failed >= 1

\* C4: once a required sequential task has ended Failed with
\* skip_optional_on_error set, no later task of the sequential bin is ever
\* given to execute_task.
C4_NoLaterSequentialTask ==
    \A i, j \in 1..Len(sequential_tasks) :
        (i < j /\ FailedAt(i)) => run[SeqTask(j)] = "idle"

\* C4 witness: the run is over, a sequential task failed under
\* skip_optional_on_error, and a later sequential task never ran.
C4_Witness ==
    /\ pc = "done"
    /\ \E i, j \in 1..Len(sequential_tasks) :
        i < j /\ FailedAt(i) /\ run[SeqTask(j)] = "idle"

\* C5: in a run whose sequential bin was truncated, the parallel bin is still
\* dispatched in full: every parallel task is spawned, and when the report is
\* made every parallel task has run and its TaskResult is in the results once.
C5_ParallelBinUnaffected ==
    Truncated =>
        /\ pc \in {"join", "display", "done"} =>
              \A t \in Ids(parallel_tasks) : run[t] # "idle"
        /\ pc \in {"display", "done"} =>
              \A t \in Ids(parallel_tasks) :
                  /\ run[t] = "done"
                  /\ Cardinality(ResultsFor(t)) = 1
                  /\ \A i \in ResultsFor(t) : results[i] = returned[t]

\* C5 witness: a truncated run with a non-empty parallel bin has ended.
C5_Witness ==
    /\ pc = "done"
    /\ Truncated
    /\ parallel_tasks # << >>

\* C6: whatever the two limits are, 0 included, the run terminates when every
\* task's own execution terminates and scheduling is fair.
C6_RunTerminates == <>(pc \in {"done", "exit"})

\* C7: a task waiting for its external process, elevated or not, eventually
\* reaches a terminal status even if the process never exits.
C7_TimeoutBoundsEveryTask ==
    \A t \in TaskIds : (run[t] \in {"running", "sudo_running"}) ~> (run[t] = "done")

\* C8: a task whose process exceeded its timeoutSeconds ends Failed with the
\* timeout reason as output. Stated for the required tasks, whose failures are
\* not reclassified.
C8_TimeoutEndsFailed ==
    \A t \in TaskIds :
        (t \in exceeded /\ run[t] = "done" /\ Entry(t).required) =>
            /\ returned[t].status = Failed
            /\ returned[t].output = "timeout"

\* C9: no permit leaks: the free permits and the permits held by workers inside
\* execute_task always add up to the gate's capacity, so a permit is free
\* whenever fewer workers are inside than the capacity, and all are free once
\* every parallel task is terminal.
C9_NoSlotLeak ==
    semaphore.created =>
        /\ semaphore.permits + Cardinality(Holding) = semaphore.limit
        /\ (\A t \in Ids(parallel_tasks) : run[t] = "done") =>
              semaphore.permits = semaphore.limit

\* C9 witness: behind a gate of one, a worker's task ended by timeout and the
\* task that was queued behind it now holds the permit.
C9_Witness ==
    /\ semaphore.created
    /\ semaphore.limit = 1
    /\ \E t, u \in Ids(parallel_tasks) :
        /\ run[t] = "done"
        /\ returned[t].output = "timeout"
        /\ Inside(u)

\* C10: a task whose execution failed (non-zero exit, process not started,
\* timeout, authentication failure) ends Failed when required and Skipped when
\* not; never Success.
C10_ReclassifiedByRequired ==
    \A t \in TaskIds :
        (run[t] = "done" /\ returned[t].output \in {"error", "timeout"}) =>
            returned[t].status = IF Entry(t).required THEN Failed ELSE Skipped

\* C10 witness: an optional task's failure was reclassified to Skipped and a
\* required task's timeout ended Failed, in the same run.
C10_Witness ==
    \E t, u \in TaskIds :
        /\ run[t] = "done" /\ ~Entry(t).required
        /\ returned[t].output = "error" /\ returned[t].status = Skipped
        /\ run[u] = "done" /\ Entry(u).required
        /\ returned[u].output = "timeout" /\ returned[u].status = Failed

C13_FilteredTasksNeverRun ==
    pc # "start" =>
        \A t \in TaskIds \ eligible :
            /\ t \notin Ids(all_tasks) \cup Ids(sequential_tasks) \cup Ids(parallel_tasks)
            /\ run[t] = "idle"
            /\ returned[t] = NoResult
            /\ ResultsFor(t) = {}

\* C13 witness: a run has ended that executed one task and left another out.
C13_Witness ==
    /\ pc = "done"
    /\ \E t \in eligible : run[t] = "done"
    /\ \E t \in TaskIds : t \notin eligible

\* What the observer noted of task t's run_sudo_command.
Noted(t) == { history.elevation[t][i] : i \in 1..Len(history.elevation[t]) }
Prompts == {"prompt", "confirm_yes", "confirm_no", "confirm_error"}
StoreReads == {"get", "exists_yes", "exists_no"}
StoreWrites == {"put_ok", "put_error"}

\* C14: a run_sudo_command that found the cached session valid calls
\* run_actual and has no other dealings: no prompt, no read of the secret
\* store, no write to it.
C14_CachedSessionRunsDirectly ==
    \A t \in TaskIds :
        "session_valid" \in Noted(t) =>
            /\ "run_actual" \in Noted(t)
            /\ Noted(t) \cap (Prompts \cup StoreReads \cup StoreWrites) = {}
            /\ history.elevation[t] = <<"session_valid", "run_actual">>

\* C14 witness: an elevated task found the cached session valid, ran its
\* command and succeeded.
C14_Witness ==
    \E t \in TaskIds :
        /\ "session_valid" \in Noted(t)
        /\ run[t] = "done"
        /\ returned[t].status = Success

\* C15: whoever is at the password prompt of run_sudo_command is a task of the
\* sequential bin, run by the coordinator; no parallel worker ever is.
C15_NoPromptInWorker ==
    \A t \in TaskIds : run[t] = "prompting" => InSequentialBin(t)

\* C16: at no instant are two tasks inside run_sudo_command's negotiation.
C16_OneNegotiationAtATime ==
    Cardinality({ t \in TaskIds : run[t] \in {"negotiating", "prompting"} }) <= 1

\* C17: main calls ensure_sudo_auth at most once; while the call lasts, and
\* before it, no task has started; and the call is not made in a dry run nor
\* under --quiet.
C17_PreAuthOnceBeforeTasks ==
    /\ history.calls <= 1
    /\ (pc \in {"start", "confirm", "preauth", "preauth_prompt"}
          \/ history.preauth = "prompting") =>
          \A t \in TaskIds : run[t] = "idle"
    /\ (pc \in {"preauth", "preauth_prompt"} \/ history.preauth # "none") =>
          (~dry_run /\ ~history.quiet)

\* C17 witness: the run has ended, ensure_sudo_auth was called and has
\* returned, and a task was executed after it.
C17_Witness ==
    /\ pc = "done"
    /\ history.calls = 1
    /\ history.preauth \in {"ok", "failed"}
    /\ \E t \in TaskIds : run[t] = "done"

\* The sequential tasks that the loop reached: all of them, or those up to the
\* one whose failure ended the loop.
Reached(i) == \A j \in 1..(i - 1) : ~FailedAt(j)

\* C18: after an ensure_sudo_auth that returned an error the program does not
\* exit; every collected task is put in a bin; every task of the parallel bin
\* is given to a worker and every task the sequential loop reaches is
\* executed; and a task's elevated command is run only out of that task's own
\* negotiation in run_sudo_command.
C18_FailedPreAuthIsAdvisory ==
    /\ [](history.preauth = "failed" =>
            /\ pc # "exit"
            /\ pc = "partition" => Ids(all_tasks) = eligible
            /\ pc \notin {"partition", "preauth", "preauth_prompt"} =>
                  Ids(sequential_tasks) \cup Ids(parallel_tasks) = eligible
            /\ pc \in {"join", "display", "done"} =>
                  \A t \in Ids(parallel_tasks) : run[t] # "idle"
            /\ pc \in {"parallel", "join", "display", "done"} =>
                  \A i \in 1..Len(sequential_tasks) :
                      Reached(i) => run[SeqTask(i)] = "done")
    /\ [][\A t \in TaskIds :
            (history.preauth = "failed" /\ run'[t] = "sudo_running"
                /\ run[t] # "sudo_running") =>
                run[t] \in {"negotiating", "prompting"}]_vars

\* C18 witness: ensure_sudo_auth returned an error, and the run has ended
\* with an elevated task that succeeded and a task of the parallel bin that
\* was executed.
C18_Witness ==
    /\ history.preauth = "failed"
    /\ pc = "done"
    /\ \E t, u \in TaskIds :
        /\ run[t] = "done" /\ Entry(t).sudo /\ returned[t].status = Success
        /\ InParallelBin(u) /\ run[u] = "done"

\* C19: a required task whose run_sudo_command found no cached session and had
\* the stored secret rejected does not run its command, and ends Failed.
C19_RejectedStoredSecretFails ==
    \A t \in TaskIds :
        ("stored_rejected" \in Noted(t) /\ Entry(t).required) =>
            /\ "run_actual" \notin Noted(t)
            /\ run[t] = "done" => returned[t].status = Failed

\* The run is over and every task was executed.
AllExecuted == pc = "done" => \A t \in eligible : run[t] = "done"

\* The run is over and every task was executed, but for the sequential tasks
\* behind one whose failure ended the sequential loop.
AllReachedExecuted ==
    pc = "done" =>
        /\ \A t \in Ids(parallel_tasks) : run[t] = "done"
        /\ \A i \in 1..Len(sequential_tasks) : Reached(i) => run[SeqTask(i)] = "done"

\* C20 as stated: a task whose entered secret was rejected has ended Failed
\* without its command run and without a write to the secret store, and all
\* the tasks of the run are executed.
C20_RejectedEntryFailsTaskOnly ==
    \A t \in TaskIds :
        "entered_rejected" \in Noted(t) =>
            /\ "run_actual" \notin Noted(t)
            /\ Noted(t) \cap StoreWrites = {}
            /\ run[t] = "done"
            /\ returned[t].status = Failed
            /\ AllExecuted

\* C20, amended: a task whose entered secret was rejected has ended without
\* its command run and without a write to the secret store, Failed when it is
\* required and Skipped when it is not; the tasks of the run are executed, but
\* for the sequential tasks behind a failure that ended the sequential loop.
C20_RejectedEntryEndsTask ==
    \A t \in TaskIds :
        "entered_rejected" \in Noted(t) =>
            /\ "run_actual" \notin Noted(t)
            /\ Noted(t) \cap StoreWrites = {}
            /\ run[t] = "done"
            /\ returned[t].status = IF Entry(t).required THEN Failed ELSE Skipped
            /\ returned[t].output = "error"
            /\ AllReachedExecuted

\* C20 witness: the run has ended; a required task of the sequential bin had
\* its entered secret rejected and ended Failed, and the sequential task after
\* it was executed all the same.
C20_Witness ==
    /\ pc = "done"
    /\ \E i, j \in 1..Len(sequential_tasks) :
        /\ i < j
        /\ "entered_rejected" \in Noted(SeqTask(i))
        /\ returned[SeqTask(i)].status = Failed
        /\ run[SeqTask(j)] = "done"

\* C21: a run_sudo_command whose persist step failed (the confirmation prompt
\* gave an error, or the write to the secret store did) goes on to run the
\* task's command all the same.
C21_PersistFailureNotFatal ==
    \A t \in TaskIds :
        Noted(t) \cap {"confirm_error", "put_error"} # {} => "run_actual" \in Noted(t)

\* A write to the secret store is the last dealing of a negotiation that had
\* no cached session, prompted, had the entered secret accepted, found no
\* entry under the label and had the user agree; and it is the only write.
WriteAllowed(events) ==
    \A i \in 1..Len(events) :
        events[i] \in StoreWrites =>
            /\ i >= 6
            /\ events[1] = "session_invalid"
            /\ SubSeq(events, i - 4, i - 1) =
                  <<"prompt", "entered_accepted", "exists_no", "confirm_yes">>
            /\ \A j \in 1..Len(events) :
                  /\ events[j] \notin {"session_valid", "exists_yes", "entered_rejected",
                                       "stored_accepted"}
                  /\ events[j] \in StoreWrites => j = i

\* Every negotiation ensure_sudo_auth can have, prompt included.
AuthorizeWritesAllowed ==
    \A silent \in SilentOutcomes, prompted \in PromptOutcomes(PromptEntry) :
        /\ WriteAllowed(silent.events)
        /\ silent.tier = "prompt" => WriteAllowed(silent.events \o prompted.events)

\* C22: run_sudo_command and ensure_sudo_auth write to the secret store only
\* in a negotiation with no cached session, an entered secret that the
\* elevation mechanism accepted, no entry under the label, and the user's
\* agreement to save; never over an entry, and never a rejected secret.
C22_WriteOnlyWhenNewAndConfirmed ==
    /\ \A t \in TaskIds : WriteAllowed(history.elevation[t])
    /\ AuthorizeWritesAllowed

\* C22 witness: a task's entered secret was saved, after the stored one had
\* been looked for in vain, and the task's command succeeded.
C22_Witness ==
    \E t \in TaskIds :
        /\ "put_ok" \in Noted(t)
        /\ run[t] = "done"
        /\ returned[t].status = Success

\* The outputs that are a diagnostic reason.
Reasons == {"dry_run", "check_command", "check_path", "error", "timeout"}
WithReason(result) ==
    /\ result.output # "none"
    /\ result.status \in {Failed, Skipped} => result.output \in Reasons
    /\ result.status = Failed => result.output \in {"error", "timeout"}

\* C23: every TaskResult that execute_task returned, and every one in the
\* result list, has an output; when its status is Failed or Skipped the
\* output is the reason of the failure or of the skip.
C23_FailureCarriesReason ==
    /\ \A t \in TaskIds : run[t] = "done" => WithReason(returned[t])
    /\ \A i \in 1..Len(results) : WithReason(results[i])

\* C23 witness: the run has ended with a task that Failed and a task that
\* was Skipped for its missing path.
C23_Witness ==
    /\ pc = "done"
    /\ \E t, u \in TaskIds :
        /\ run[t] = "done" /\ returned[t].status = Failed
        /\ run[u] = "done" /\ returned[u].status = Skipped
        /\ returned[u].output = "check_path"

\* C24: the program never ends early once tasks are dispatched, and when the
\* report is made every task that was executed and did not succeed has its
\* TaskResult, with its reason, in the result list.
C24_EveryFailureRecorded ==
    /\ (\E t \in TaskIds : run[t] # "idle") => pc # "exit"
    /\ pc \in {"display", "done"} =>
          \A t \in TaskIds :
              (run[t] = "done" /\ returned[t].status # Success) =>
                  /\ WithReason(returned[t])
                  /\ \E i \in ResultsFor(t) : results[i] = returned[t]

\* C25: the sequential bin holds its tasks in configuration order; a task of
\* it starts only when all those before it have returned, so at most one is
\* inside execute_task; none has started while main is inside
\* ensure_sudo_auth; and the result list begins with the results of the
\* sequential tasks the loop has pushed, in configuration order.
C25_SequentialInOrder ==
    /\ \A i, j \in 1..Len(sequential_tasks) :
          i < j =>
              /\ SeqTask(i) < SeqTask(j)
              /\ run[SeqTask(j)] # "idle" => run[SeqTask(i)] = "done"
    /\ Cardinality({ t \in Ids(sequential_tasks) : Inside(t) }) <= 1
    /\ pc \in {"preauth", "preauth_prompt"} => \A t \in TaskIds : run[t] = "idle"
    /\ sequential_tasks # << >> =>
          /\ Len(results) >= seq_pos - 1
          /\ SubSeq(results, 1, seq_pos - 1) = SeqReturned(seq_pos - 1)
    /\ \A a, b \in 1..Len(results) :
          (a < b /\ InSequentialBin(results[a].id) /\ InSequentialBin(results[b].id)) =>
              results[a].id < results[b].id

\* C25 witness: the run has ended with two tasks in the sequential bin, both
\* executed and both reported, the first before the second.
C25_Witness ==
    /\ pc = "done"
    /\ Len(sequential_tasks) = 2
    /\ run[SeqTask(1)] = "done" /\ run[SeqTask(2)] = "done"
    /\ results = SeqReturned(2)

\* The tasks of all_tasks that the rule puts in the parallel bin (or, with
\* `into_parallel` false, in the sequential bin), in the order of all_tasks.
BinByRule(parallel_execution, into_parallel) ==
    LET Chosen(e) ==
            (e.is_parallel \/ (parallel_execution /\ ~e.sudo)) = into_parallel
        chosen == SelectSeq(all_tasks, Chosen)
    IN [ i \in 1..Len(chosen) |-> BinEntry(chosen[i]) ]

\* C26: the partition puts a task in the parallel bin if and only if its
\* group is parallel, or parallel_execution is set and the task has
\* sudo=false, and in the sequential bin otherwise, keeping the order of
\* all_tasks in each bin; from then on every scheduled task is in exactly one
\* bin, once.
C26_PartitionRule ==
    /\ [][pc = "partition" =>
            \E parallel_execution \in BOOLEAN :
                /\ parallel_tasks' = BinByRule(parallel_execution, TRUE)
                /\ sequential_tasks' = BinByRule(parallel_execution, FALSE)]_vars
    /\ [](pc \in {"sequential", "parallel", "join", "display", "done"} =>
            /\ Ids(sequential_tasks) \cup Ids(parallel_tasks) = eligible
            /\ Ids(sequential_tasks) \cap Ids(parallel_tasks) = {}
            /\ Len(sequential_tasks) + Len(parallel_tasks) = Cardinality(eligible))

\* C26 witness: after the partition an elevated task of a parallel group is
\* in the parallel bin and an elevated task is in the sequential bin.
C26_Witness ==
    /\ pc = "sequential"
    /\ \E i \in 1..Len(parallel_tasks) : parallel_tasks[i].sudo
    /\ \E i \in 1..Len(sequential_tasks) : sequential_tasks[i].sudo

\* C30: an ensure_sudo_auth that returned an error had the entered secret
\* rejected; with a cached session, an accepted stored or entered secret, a
\* prompt left empty or cancelled, or a save declined or failed, it returned
\* Ok.
C30_ErrOnlyOnWrongPassword ==
    /\ history.preauth = "failed" => history.tier = "rejected"
    /\ history.tier \in {"cached", "stored", "session", "no_entry", "persist_error"} =>
          history.preauth = "ok"

\* The list rs in the order a permutation of its places gives.
Permuted(rs, f) == [ i \in 1..Len(rs) |-> rs[f[i]] ]

\* C29: what display_results printed of a list (the counts per status and the
\* longest task) is what it prints of every permutation of the list.
C29_SummaryOrderIndependent ==
    pc = "summarized" =>
        \A f \in Permutations(1..Len(results)) :
            DisplayResults(Permuted(results, f)) = summary

\* The lines of the log, as noted.
LogLine(i) == history.log[i]

\* C27: the completion line of a task and the header and body lines of its
\* output block lie together in the log file: no line that another task
\* wrote is between two of them.
C27_BlocksContiguous ==
    \A i, j \in 1..Len(history.log) :
        (i < j /\ LogLine(i).task = LogLine(j).task) =>
            \A k \in i..j : LogLine(k).task = LogLine(i).task

\* C28: whatever the notification calls and the log writes give, a task that
\* was executed returns its TaskResult to its caller, main is not stopped,
\* and at the end every task that the run reaches has been executed.
C28_TelemetryNeverAffectsOutcome ==
    /\ pc # "panicked"
    /\ \A t \in TaskIds : run[t] # "panicked"
    /\ AllReachedExecuted

\* C31: while the manager is disabled, by the setting or by --quiet, no
\* notification of any kind has reached the desktop and no call for one has
\* returned an error; and each notify operation of a disabled manager comes to
\* Ok with nothing shown, whatever its arguments and whatever showing would
\* have given.
C31_DisabledNotifierSilent ==
    /\ ~notifier.enabled => notifier.shown = {} /\ notifier.errors = {}
    /\ \A shown \in BOOLEAN :
        /\ Notify(FALSE, shown) = "off"
        /\ \A text \in {"short", "long", "long_split"} :
              NotifyTaskFailed(FALSE, text, shown) = "off"

\* C31 witness: a run under --quiet with desktop_notifications set has ended,
\* in which a required task timed out and was reported Failed.
C31_Witness ==
    /\ pc = "done"
    /\ notifier.configured /\ ~notifier.enabled
    /\ \E t \in TaskIds :
        /\ run[t] = "done"
        /\ returned[t].status = Failed /\ returned[t].output = "timeout"

\* The sequential loop has been left.
LoopLeft == pc \in {"parallel", "join", "display", "done"}

\* C32: once the sequential loop has been left, a task of the sequential bin
\* was not run if and only if a task before it in the bin ended Failed with
\* skip_optional_on_error set; so with the setting unset every task of the bin
\* was run, and a task that ended Skipped cut nothing off.
C32_TruncatedIffFailedUnderSetting ==
    LoopLeft =>
        \A j \in 1..Len(sequential_tasks) :
            /\ run[SeqTask(j)] \in {"idle", "done"}
            /\ run[SeqTask(j)] = "idle" <=> \E i \in 1..(j - 1) : FailedAt(i)

\* C32 witness: a run has ended in which, with the setting unset, a sequential
\* task ended Failed and the task after it was run.
C32_Witness ==
    /\ pc = "done"
    /\ ~skip_optional_on_error
    /\ \E i, j \in 1..Len(sequential_tasks) :
        /\ i < j
        /\ returned[SeqTask(i)].status = Failed
        /\ run[SeqTask(j)] = "done"

\* The order of the tiers in the dealings of one negotiation: the cached
\* session is tried first; the secret store is read second, and only when
\* there was no cached session; the prompt comes after both, and only when
\* neither gave a session.
TierOrder(events) ==
    /\ events # << >> => events[1] \in {"session_valid", "session_invalid"}
    /\ \A i \in 1..Len(events) :
        /\ events[i] \in {"session_valid", "session_invalid"} => i = 1
        /\ events[i] \in StoreReads \cup Prompts \cup StoreWrites =>
              events[1] = "session_invalid"
        /\ events[i] = "get" => i = 2
        /\ events[i] \in Prompts =>
              /\ Len(events) >= 2 /\ events[2] = "get"
              /\ \A j \in 1..Len(events) : events[j] # "stored_accepted"
        /\ events[i] = "prompt" =>
              \A j \in 1..(i - 1) : events[j] \notin Prompts \cup StoreWrites

\* In ensure_sudo_auth the call of notify_sudo_required comes right before
\* the prompt, and the prompt never comes without it.
NotifiedBeforePrompt(events) ==
    \A i \in 1..Len(events) :
        /\ events[i] = "notify_sudo_required" =>
              i < Len(events) /\ events[i + 1] = "prompt"
        /\ events[i] = "prompt" => i > 1 /\ events[i - 1] = "notify_sudo_required"

\* Every negotiation ensure_sudo_auth can have.
AuthorizeInOrder ==
    \A silent \in SilentOutcomes, prompted \in PromptOutcomes(PromptEntry) :
        LET events == EnsureSudoAuth(silent, prompted) IN
        /\ TierOrder(events)
        /\ NotifiedBeforePrompt(events)
        /\ silent.tier = "prompt" <=>
              \E i \in 1..Len(events) : events[i] = "notify_sudo_required"

\* C33: run_sudo_command and ensure_sudo_auth try the cached session, then
\* the stored secret, then the prompt, each only when the ones before gave no
\* session: the secret store is not read under a valid cached session, the
\* user is not asked under a valid cached session or an accepted stored
\* secret; and ensure_sudo_auth calls notify_sudo_required right before its
\* prompt and nowhere else.
C33_TiersInOrder ==
    /\ \A t \in TaskIds : TierOrder(history.elevation[t])
    /\ AuthorizeInOrder

\* C33 witness: a task had no cached session, had its stored secret rejected,
\* asked the user, and ran its command.
C33_Witness ==
    \E t \in TaskIds :
        /\ run[t] = "done"
        /\ {"stored_rejected", "prompt", "run_actual"} \subseteq Noted(t)

\* C34: a task is reported with a missing precondition only outside a dry
\* run and straight out of the checks, before it negotiated elevation or
\* started a process; it ends Skipped, required or not, and the sequential
\* loop goes on to its next task; a missing executable is the reason whenever
\* the executable is missing, the missing path only when the executable is not.
C34_PreconditionsInOrder ==
    /\ [][\A t \in TaskIds :
            (run[t] # "done" /\ run'[t] = "done"
                /\ returned'[t].output \in {"check_command", "check_path"}) =>
                /\ run[t] = "entered"
                /\ ~dry_run
                /\ returned'[t].status = Skipped
                /\ InSequentialBin(t) =>
                      /\ pc' = "sequential"
                      /\ seq_pos' = seq_pos + 1
                      /\ results' = Append(results, returned'[t])]_vars
    /\ [](/\ dry_run =>
                \A t \in TaskIds :
                    returned[t].output \notin {"check_command", "check_path"}
          /\ \A check_command \in Checks, check_path \in Checks :
                LET reported == Preconditions(check_command, check_path) IN
                /\ reported = "command_not_found" <=> check_command = "missing"
                /\ reported = "path_not_found" <=>
                      check_command # "missing" /\ check_path = "missing")

\* C34 witness: with skip_optional_on_error set, a required sequential task
\* was skipped for its missing path and the task after it was run.
C34_Witness ==
    /\ skip_optional_on_error
    /\ \E i, j \in 1..Len(sequential_tasks) :
        /\ i < j
        /\ sequential_tasks[i].required
        /\ run[SeqTask(i)] = "done"
        /\ returned[SeqTask(i)] = TaskResult(SeqTask(i), Skipped, "check_path")
        /\ run[SeqTask(j)] = "done"

\* C35: sudo is put before a task's command exactly when the task is elevated
\* and its command is not empty and does not begin with sudo already, so the
\* final argument vector never begins with sudo twice; the vector goes to
\* run_sudo_command exactly when it begins with sudo, and to run_command
\* otherwise. So a task enters the negotiation or the direct runner only
\* straight from the precondition checks, an elevated task never enters the
\* direct runner, and a task with an empty command ends there and then, with
\* no process, its error classified as any failure is.
C35_RoutedByFinalCommand ==
    /\ [][\A t \in TaskIds :
            /\ (run[t] # "negotiating" /\ run'[t] = "negotiating") => run[t] = "entered"
            /\ (run[t] # "running" /\ run'[t] = "running") =>
                  run[t] = "entered" /\ ~Entry(t).sudo
            /\ (run[t] = "entered" /\ run'[t] = "done" /\ returned'[t].output = "error") =>
                  returned'[t].status = IF Entry(t).required THEN Failed ELSE Skipped]_vars
    /\ [](\A sudo \in BOOLEAN, command \in Commands :
            LET cmd == FinalCommand(sudo, command) IN
            /\ cmd # command <=> (sudo /\ command # << >> /\ command[1] # "sudo")
            /\ cmd # command => cmd = <<"sudo">> \o command
            /\ ~(Len(cmd) >= 2 /\ cmd[1] = "sudo" /\ cmd[2] = "sudo")
            /\ Runner(sudo, cmd) = "run_sudo_command" <=> (cmd # << >> /\ cmd[1] = "sudo")
            /\ Runner(sudo, cmd) \in {"run_sudo_command", "run_command"}
            /\ cmd = << >> <=> command = << >>)

\* C35 witness: two tasks are in the negotiation at once, an elevated one and
\* one that is not elevated, whose command begins with sudo itself.
C35_Witness ==
    \E t, u \in TaskIds :
        /\ run[t] = "negotiating" /\ ~Entry(t).sudo
        /\ run[u] = "negotiating" /\ Entry(u).sudo

\* The process that runs task t's command, while there is one.
Spawned(t) == run[t] \in {"running", "sudo_running"}
TaskProcess(t) == IF run[t] = "running" THEN "run_command" ELSE "run_actual"

C37_AllCompleteOnlyWithoutFailure ==
    "all_tasks_complete" \in notifier.shown =>
        /\ \A t \in TaskIds : run[t] = "done" => returned[t].status # Failed
        /\ \E t \in TaskIds : run[t] = "done" /\ returned[t].status = Success

\* The tasks of the parallel bin that have a process of theirs in the system:
\* one that their worker is waiting for, or one that it left behind.
WorkerProcesses ==
    { t \in TaskIds :
        InParallelBin(t) /\ (Spawned(t) \/ t \in history.abandoned) }

\* C38: the processes that the workers of the parallel bin started and that
\* have not exited are never more than the smaller of the two limits.
C38_ProcessesWithinGate ==
    semaphore.created => Cardinality(WorkerProcesses) <= semaphore.limit

\* The results of the workers that returned one, in the order of the parallel
\* bin; and the results in the list that are those of sequential tasks.
ParallelReturned ==
    LET Returned(entry) == run[entry.id] = "done"
        joined == SelectSeq(parallel_tasks, Returned)
    IN [ i \in 1..Len(joined) |-> returned[joined[i].id] ]
SequentialPart ==
    LET Sequential(result) == InSequentialBin(result.id)
    IN SelectSeq(results, Sequential)

\* C39: while the sequential loop is running no task of the parallel bin has
\* entered execute_task, nor is one waiting for a permit; while the workers
\* run no sequential task is inside execute_task; and once the workers are
\* joined the result list is the results of the sequential tasks followed by
\* those of the parallel tasks in the order of the parallel bin.
C39_BinsInOrder ==
    /\ pc \in {"start", "confirm", "preauth", "preauth_prompt", "partition",
               "sequential", "parallel"} =>
          \A t \in TaskIds : InParallelBin(t) => run[t] = "idle"
    /\ pc \in {"join", "display", "done"} =>
          \A t \in TaskIds : InSequentialBin(t) => run[t] \in {"idle", "done"}
    /\ pc \in {"display", "done"} =>
          results = SequentialPart \o ParallelReturned

\* C39 witness: the second task of the parallel bin has returned while the
\* first is still running its command.
C39_Witness ==
    /\ pc = "join"
    /\ Len(parallel_tasks) = 2
    /\ run[parallel_tasks[2].id] = "done"
    /\ run[parallel_tasks[1].id] = "running"
====
